---------------------------- MODULE Spec2Model ----------------------------
(***************************************************************************)
(* Model of biotite.sequence.Sequence (src/src/biotite/sequence/sequence.py)*)
(* and of the hybrid-36 codec exercised by tests/structure/test_pdb.py.     *)
(*                                                                         *)
(* A Sequence object holds a NumPy array, and two arrays may share memory: *)
(* basic slicing returns a view, fancy indexing and np.copy return fresh   *)
(* memory, astype(dtype, copy=False) returns its argument when the element *)
(* type already matches.  The state keeps, next to the code of every       *)
(* object, the relation "position i of x and position j of y are the same  *)
(* memory cell".  codec is the state of a hybrid-36 round trip.            *)
(***************************************************************************)
EXTENDS Integers, Sequences, FiniteSets, TLC

VARIABLES seqs, alias, last, codec

vars == <<seqs, alias, last, codec>>

(***************************************************************************)
(* Bounds of the model.                                                    *)
(***************************************************************************)
MaxLen == 2

\* Identifier widths of which every number is encoded.
MaxWidth == 2

\* Size of the alphabet that needs two-byte codes.
BigSize == 257

\* The program variables that hold Sequence objects.
Slots == {"s", "t"}

(***************************************************************************)
(* Small helpers on TLA+ sequences.                                        *)
(***************************************************************************)
Range(f) == {f[i] : i \in DOMAIN f}

RECURSIVE SumSeq(_)
SumSeq(q) == IF q = <<>> THEN 0 ELSE Head(q) + SumSeq(Tail(q))

SeqsUpTo(S, n) == UNION {[1..k -> S] : k \in 0..n}

Min(S) == CHOOSE x \in S : \A y \in S : x <= y

(***************************************************************************)
(* Element types.  _size_uint32 = 2^32 does not fit a TLC integer, so      *)
(* sizes are compared as pairs <<hi, lo>> = hi * 2^16 + lo.                *)
(***************************************************************************)
Limbs(n) == <<n \div 65536, n % 65536>>
LimbLeq(x, y) == x[1] < y[1] \/ (x[1] = y[1] /\ x[2] <= y[2])

_size_uint8 == <<0, 256>>
_size_uint16 == <<1, 0>>
_size_uint32 == <<65536, 0>>

_dtype(alphabet_size) ==
    IF LimbLeq(alphabet_size, _size_uint8) THEN "uint8"
    ELSE IF LimbLeq(alphabet_size, _size_uint16) THEN "uint16"
    ELSE IF LimbLeq(alphabet_size, _size_uint32) THEN "uint32"
    ELSE "uint64"

Bits(dtype) ==
    CASE dtype = "uint8" -> 8
      [] dtype = "uint16" -> 16
      [] dtype = "uint32" -> 32
      [] OTHER -> 64

\* Integer-to-integer conversion of one element: the value modulo 2^bits.
\* Element values of the model lie in -2^31 .. 2^31 - 1; the alphabets of the
\* model need 8 or 16 bits, the wider types are never the target of a cast.
CastValue(v, dtype) ==
    CASE dtype = "uint8" -> v % 256
      [] dtype = "uint16" -> v % 65536
      [] OTHER -> v

(***************************************************************************)
(* Alphabets: an ordered list of distinct symbols, code = position - 1.    *)
(***************************************************************************)
NucAlphabet == <<"A", "C", "G", "T">>
BinAlphabet == <<"C", "A">>
BigAlphabet == [i \in 1..BigSize |->
                   IF i <= Len(NucAlphabet) THEN NucAlphabet[i]
                   ELSE "x" \o ToString(i - 1)]

Kinds == {"Nuc", "NucSub", "Bin", "Big"}

\* The class a class is derived from: NucSub is a subclass of Nuc that
\* inherits get_alphabet; str and list are the classes of raw symbol input.
BaseOf(class) ==
    CASE class = "NucSub" -> "Nuc"
      [] class \in {"Nuc", "Bin", "Big"} -> "Sequence"
      [] OTHER -> "object"

\* isinstance(object of class k, class c)
RECURSIVE IsInstance(_, _)
IsInstance(k, c) == k = c \/ (k # "object" /\ IsInstance(BaseOf(k), c))

get_alphabet(kind) ==
    CASE kind = "Nuc" -> NucAlphabet
      [] kind = "NucSub" -> NucAlphabet
      [] kind = "Bin" -> BinAlphabet
      [] kind = "Big" -> BigAlphabet

Contains(alph, symbol) == \E i \in 1..Len(alph) : alph[i] = symbol

encode(alph, symbol) == (CHOOSE i \in 1..Len(alph) : alph[i] = symbol) - 1

CanDecode(alph, code) == 0 <= code /\ code < Len(alph)

decode(alph, code) == alph[code + 1]

CanEncodeMultiple(alph, symbols) ==
    \A i \in 1..Len(symbols) : Contains(alph, symbols[i])

encode_multiple(alph, symbols) ==
    [i \in 1..Len(symbols) |-> encode(alph, symbols[i])]

CanDecodeMultiple(alph, code) ==
    \A i \in 1..Len(code) : CanDecode(alph, code[i])

decode_multiple(alph, code) == [i \in 1..Len(code) |-> decode(alph, code[i])]

\* other's symbol list is a prefix of alph's (reflexive).
extends(alph, other) ==
    /\ Len(other) <= Len(alph)
    /\ \A i \in 1..Len(other) : alph[i] = other[i]

DtypeOf(kind) == _dtype(Limbs(Len(get_alphabet(kind))))

(***************************************************************************)
(* NumPy arrays.  An array has an element type and data; src and map tell  *)
(* whose memory it shows: element k is the cell at position map[k] of the  *)
(* array held by the object in variable src ("-": memory of its own).      *)
(***************************************************************************)
FreshArr(dtype, data) ==
    [dtype |-> dtype, data |-> data, src |-> "-", map |-> <<>>]

\* An array of Python integers handed in by the caller (element type int64).
RawArr(values) == FreshArr("int64", values)

CastSeq(data, dtype) == [i \in 1..Len(data) |-> CastValue(data[i], dtype)]

\* ndarray.astype(dtype, copy=False)
astype(a, dtype) ==
    IF a.dtype = dtype THEN a ELSE FreshArr(dtype, CastSeq(a.data, dtype))

np_copy(a) == FreshArr(a.dtype, a.data)

ReverseSeq(q) == [i \in 1..Len(q) |-> q[Len(q) + 1 - i]]

\* The array is returned as it is.
np_flip_same(a) == a

\* np.flip(a, axis=0): a view of a with the positions in reverse order.
np_flip(a) == [a EXCEPT !.data = ReverseSeq(a.data), !.map = ReverseSeq(a.map)]

WiderDtype(d1, d2) == IF Bits(d1) >= Bits(d2) THEN d1 ELSE d2

np_concatenate(a, b) == FreshArr(WiderDtype(a.dtype, b.dtype), a.data \o b.data)

(***************************************************************************)
(* Indices: a slice lo:hi, a list of positions, or a boolean mask.         *)
(* Positions are 0-based as in the program; Selected gives the 1-based     *)
(* places that the index selects, in order.                                *)
(***************************************************************************)
SliceIndex(lo, hi) == [type |-> "slice", lo |-> lo, hi |-> hi, list |-> <<>>]
ListIndex(l) == [type |-> "list", lo |-> 0, hi |-> 0, list |-> l]

RECURSIVE MaskPositions(_, _)
MaskPositions(mask, k) ==
    IF k > Len(mask) THEN <<>>
    ELSE (IF mask[k] THEN <<k - 1>> ELSE <<>>) \o MaskPositions(mask, k + 1)

\* A boolean mask selects the positions where it is True, in order.
MaskIndex(mask) == [type |-> "mask", lo |-> 0, hi |-> 0,
                    list |-> MaskPositions(mask, 1)]

Selected(index) ==
    IF index.type = "slice"
    THEN [i \in 1..(index.hi - index.lo) |-> index.lo + i]
    ELSE [i \in 1..Len(index.list) |-> index.list[i] + 1]

\* ndarray.__getitem__ with a multi-position index: basic slicing gives a
\* view onto the same memory, a list or mask gives a fresh array.
nd_getitem(a, index) ==
    LET sel == Selected(index)
        data == [i \in 1..Len(sel) |-> a.data[sel[i]]]
    IN IF index.type = "slice" /\ a.src # "-"
       THEN [dtype |-> a.dtype, data |-> data, src |-> a.src,
             map |-> [i \in 1..Len(sel) |-> a.map[sel[i]]]]
       ELSE FreshArr(a.dtype, data)

\* ndarray.__setitem__(sel, values) seen on the data of the array: the values
\* are converted to the element type; a single value is broadcast; of two
\* writes to one place the later one stays.
nd_setitem(data, dtype, sel, values) ==
    LET val(k) == IF Len(values) = 1 THEN values[1] ELSE values[k]
        hit(p) == {k \in 1..Len(sel) : sel[k] = p}
        latest(S) == CHOOSE x \in S : \A y \in S : y <= x
    IN [p \in 1..Len(data) |->
           IF hit(p) = {} THEN data[p]
           ELSE CastValue(val(latest(hit(p))), dtype)]

\* The values fit the selection: same number, or one value for all of it.
Broadcasts(sel, values) ==
    Len(values) = Len(sel) \/ Len(values) = 1

(***************************************************************************)
(* Sequence objects.                                                       *)
(***************************************************************************)
NoSeq == [kind |-> "none", dtype |-> "none", code |-> <<>>]

Live == {x \in Slots : seqs[x] # NoSeq}

\* self._seq_code of the object in variable x
SeqCode(x) ==
    [dtype |-> seqs[x].dtype, data |-> seqs[x].code, src |-> x,
     map |-> [i \in 1..Len(seqs[x].code) |-> i]]

\* The array of an object that no variable holds (a temporary).
TempCode(obj) == FreshArr(obj.dtype, obj.code)

Obj(kind, arr) == [kind |-> kind, dtype |-> arr.dtype, code |-> arr.data]

(***************************************************************************)
(* The methods of Sequence.  A method that builds a sequence returns the   *)
(* array the new object holds; self_code is self._seq_code.                *)
(***************************************************************************)
\* The array is stored without the conversion.
code_setter_nocast(kind, value) == value

\* code.setter: self._seq_code = value.astype(dtype, copy=False)
code_setter(kind, value) == astype(value, DtypeOf(kind))

\* symbols.setter: self._seq_code = alph.encode_multiple(value, dtype)
symbols_setter(kind, value) ==
    FreshArr(DtypeOf(kind), encode_multiple(get_alphabet(kind), value))

\* The symbols come out in reverse order.
symbols_reversed(obj) ==
    ReverseSeq(decode_multiple(get_alphabet(obj.kind), obj.code))

\* symbols (getter)
symbols(obj) == decode_multiple(get_alphabet(obj.kind), obj.code)

\* copy(): the clone is of the kind of self and gets a copy of the code
copy(kind, self_code) == code_setter(kind, np_copy(self_code))

\* copy(new_seq_code): the clone gets the array that is handed in
copy_with(kind, new_seq_code) == code_setter(kind, new_seq_code)

reverse(kind, self_code) == copy_with(kind, np_flip(np_copy(self_code)))

is_valid(obj) ==
    \A i \in 1..Len(obj.code) : obj.code[i] < Len(get_alphabet(obj.kind))

\* The codes are counted from 1 instead of 0.
get_symbol_frequency_from1(obj) ==
    LET alph == get_alphabet(obj.kind)
    IN [c \in 1..Len(alph) |->
           <<alph[c], Cardinality({i \in 1..Len(obj.code) : obj.code[i] = c})>>]

\* The dict that is returned, as its items <<symbol, count>> in the order of
\* insertion: for code, symbol in enumerate(alphabet), the number of places
\* where the sequence code equals code.
get_symbol_frequency(obj) ==
    LET alph == get_alphabet(obj.kind)
    IN [c \in 1..Len(alph) |->
           <<alph[c],
             Cardinality({i \in 1..Len(obj.code) : obj.code[i] = c - 1})>>]

\* __getitem__ with a multi-position index
getitem(kind, self_code, index) ==
    copy_with(kind, nd_getitem(self_code, index))

\* A str or list of symbols, as an operand of ==.
RawItem(value) == [kind |-> "str", dtype |-> "none", code |-> value]

\* Only the shapes are compared.
array_equal_shape(a1, a2) == Len(a1) = Len(a2)

\* np.array_equal(a1, a2)
array_equal(a1, a2) ==
    Len(a1) = Len(a2) /\ \A i \in 1..Len(a1) : a1[i] = a2[i]

\* __eq__ as a method: self.__eq__(item), self a Sequence
eq_method(self, item) ==
    IF ~IsInstance(item.kind, self.kind) THEN FALSE
    ELSE IF get_alphabet(self.kind) # get_alphabet(item.kind) THEN FALSE
    ELSE array_equal(self.code, item.code)

\* x == y, at least one of them a Sequence.  Python asks the right operand
\* first when its class is a proper subclass of the left operand's class; a
\* str or list on the left answers NotImplemented and the Sequence on the
\* right is asked; Sequence.__eq__ always answers True or False.
eq_operator(x, y) ==
    IF x.kind # y.kind /\ IsInstance(y.kind, x.kind) THEN eq_method(y, x)
    ELSE IF IsInstance(x.kind, "Sequence") THEN eq_method(x, y)
    ELSE eq_method(y, x)

\* The direction of extends is taken the wrong way round.
add_owner_swapped(a, b) ==
    IF extends(get_alphabet(b.kind), get_alphabet(a.kind)) THEN "self"
    ELSE IF extends(get_alphabet(a.kind), get_alphabet(b.kind)) THEN "other"
    ELSE "error"

\* __add__: which operand is copied, or "error"
add_owner(a, b) ==
    IF extends(get_alphabet(a.kind), get_alphabet(b.kind)) THEN "self"
    ELSE IF extends(get_alphabet(b.kind), get_alphabet(a.kind)) THEN "other"
    ELSE "error"

\* The result always takes the kind of the left operand.
add_kind_self(a, b) == a.kind

add_kind(a, b) == IF add_owner(a, b) = "self" THEN a.kind ELSE b.kind

add_code(a, a_code, b, b_code) ==
    copy_with(add_kind(a, b), np_concatenate(a_code, b_code))

(***************************************************************************)
(* Memory sharing.  alias holds <<x, i, y, j>> when position i of the      *)
(* array of x and position j of the array of y (x # y) are one cell.       *)
(***************************************************************************)
Unbind(x) == {p \in alias : p[1] # x /\ p[3] # x}

\* The cells, in variables other than x, that are the cell (y, m).
Sharers(x, y, m) ==
    {c \in Slots \X (1..MaxLen) :
        /\ c[1] # x
        /\ \/ c[1] = y /\ c[2] = m
           \/ <<y, m, c[1], c[2]>> \in alias}

AliasAfterBind(x, arr) ==
    IF arr.src = "-" THEN Unbind(x)
    ELSE LET new == UNION {{<<x, k, c[1], c[2]>> :
                               c \in Sharers(x, arr.src, arr.map[k])} :
                           k \in 1..Len(arr.map)}
         IN Unbind(x) \cup new \cup {<<p[3], p[4], p[1], p[2]>> : p \in new}

Event(op, out, ret) == [op |-> op, out |-> out, ret |-> ret]

\* The operation fails with an exception: nothing changes.
Raise(op, error) ==
    /\ UNCHANGED <<seqs, alias, codec>>
    /\ last' = Event(op, error, <<>>)

\* The operation returns ret and changes nothing.
Return(op, ret) ==
    /\ UNCHANGED <<seqs, alias, codec>>
    /\ last' = Event(op, "ok", ret)

\* Variable x now holds an object of the kind with the array arr.
Assign(x, kind, arr, op) ==
    /\ seqs' = [seqs EXCEPT ![x] = Obj(kind, arr)]
    /\ alias' = AliasAfterBind(x, arr)
    /\ last' = Event(op, "ok", <<>>)
    /\ UNCHANGED codec

\* self._seq_code.__setitem__(sel, values) on the object in x: the cells
\* written are seen by every array that shares them.
Write(x, sel, values, op) ==
    LET new == nd_setitem(seqs[x].code, seqs[x].dtype, sel, values)
        from(z, j) == {p \in Range(sel) : <<x, p, z, j>> \in alias}
    IN /\ seqs' = [z \in Slots |->
                      IF z = x THEN [seqs[x] EXCEPT !.code = new]
                      ELSE [seqs[z] EXCEPT !.code =
                               [j \in 1..Len(seqs[z].code) |->
                                   IF from(z, j) = {} THEN seqs[z].code[j]
                                   ELSE new[CHOOSE p \in from(z, j) : TRUE]]]]
       /\ UNCHANGED <<alias, codec>>
       /\ last' = Event(op, "ok", <<>>)

(***************************************************************************)
(* Inputs.                                                                 *)
(***************************************************************************)
InSymbols == {"A", "C", "X"}
InValues == {-1, 256}

SymbolLists == SeqsUpTo({"A", "C"}, MaxLen) \cup {<<"A", "X">>}
ValueLists == SeqsUpTo(InValues, MaxLen)

\* Values and symbols for an indexed assignment: none, one (broadcast), or
\* one for each place of a sequence of full length.
ItemValues ==
    SeqsUpTo(InValues, 1) \cup {[i \in 1..MaxLen |-> IF i = 1 THEN 256 ELSE -1]}
ItemSymbols ==
    SeqsUpTo({"A", "C"}, 1)
    \cup {<<"A", "X">>, [i \in 1..MaxLen |-> IF i = 1 THEN "C" ELSE "A"]}

\* Symbols that tell the alphabets apart: "A" is in all of them, "T" in all
\* but the binary one, "x4" (code 4) only in the big one, "X" in none.
SymbolInputs == {"A", "T", "x4", "X"}
SymbolInputLists == SeqsUpTo(SymbolInputs, MaxLen)

\* The slices lo:hi, the lists of two positions that are not in ascending
\* order (a mask cannot say them), and the masks.
SliceIndexes(n) == UNION {{SliceIndex(lo, hi) : hi \in lo..n} : lo \in 0..n}
ListIndexes(n) ==
    {ListIndex(l) : l \in {m \in [1..2 -> 0..(n - 1)] : m[1] >= m[2]}}
MaskIndexes(n) == {MaskIndex(m) : m \in [1..n -> BOOLEAN]}

Indexes(n) == SliceIndexes(n) \cup ListIndexes(n) \cup MaskIndexes(n)

IntIndexes(n) == (0 - n)..(n - 1)

\* The place (1-based) an integer index i names in an array of length n.
Place(i, n) == IF i < 0 THEN i + n + 1 ELSE i + 1

(***************************************************************************)
(* The hybrid-36 codec (biotite.structure.io.pdb.hybrid36): a number in a  *)
(* field of fixed width, as decimal digits while they suffice, then as a   *)
(* base-36 numeral that starts with an upper-case letter, then as one that *)
(* starts with a lower-case letter.  A string is a sequence of characters. *)
(***************************************************************************)
DigitsUpper ==
    <<"0", "1", "2", "3", "4", "5", "6", "7", "8", "9",
      "A", "B", "C", "D", "E", "F", "G", "H", "I", "J", "K", "L", "M",
      "N", "O", "P", "Q", "R", "S", "T", "U", "V", "W", "X", "Y", "Z">>

DigitsLower ==
    <<"0", "1", "2", "3", "4", "5", "6", "7", "8", "9",
      "a", "b", "c", "d", "e", "f", "g", "h", "i", "j", "k", "l", "m",
      "n", "o", "p", "q", "r", "s", "t", "u", "v", "w", "x", "y", "z">>

RECURSIVE Pow(_, _)
Pow(b, e) == IF e = 0 THEN 1 ELSE b * Pow(b, e - 1)

\* The numeral of n in the base, with exactly length digits.
Numeral(n, base, digits, length) ==
    [i \in 1..length |-> digits[((n \div Pow(base, length - i)) % base) + 1]]

DigitValue(char, digits) == (CHOOSE i \in 1..Len(digits) : digits[i] = char) - 1

RECURSIVE NumeralValue(_, _, _)
NumeralValue(string, base, digits) ==
    IF string = <<>> THEN 0
    ELSE NumeralValue(SubSeq(string, 1, Len(string) - 1), base, digits) * base
         + DigitValue(string[Len(string)], digits)

max_hybrid36_number(length) ==
    Pow(10, length) + 2 * 26 * Pow(36, length - 1) - 1

CanEncodeHybrid36(number, length) ==
    0 <= number /\ number <= max_hybrid36_number(length)

encode_hybrid36(number, length) ==
    IF number < Pow(10, length)
    THEN Numeral(number, 10, DigitsUpper, length)
    ELSE IF number - Pow(10, length) < 26 * Pow(36, length - 1)
    THEN Numeral(number - Pow(10, length) + 10 * Pow(36, length - 1),
                 36, DigitsUpper, length)
    ELSE Numeral(number - Pow(10, length) - 26 * Pow(36, length - 1)
                     + 10 * Pow(36, length - 1),
                 36, DigitsLower, length)

\* The value of an upper-case numeral, off by one.
decode_hybrid36_shifted(string) ==
    NumeralValue(string, 36, DigitsUpper) - 10 * Pow(36, Len(string) - 1)
        + Pow(10, Len(string)) + 1

decode_hybrid36_upper(string) ==
    NumeralValue(string, 36, DigitsUpper) - 10 * Pow(36, Len(string) - 1)
        + Pow(10, Len(string))

decode_hybrid36(string) ==
    IF DigitValue(string[1], DigitsUpper \o SubSeq(DigitsLower, 11, 36)) < 10
    THEN NumeralValue(string, 10, DigitsUpper)
    ELSE IF string[1] \in Range(DigitsUpper)
    THEN decode_hybrid36_upper(string)
    ELSE NumeralValue(string, 36, DigitsLower) + 16 * Pow(36, Len(string) - 1)
             + Pow(10, Len(string))

\* The widths the tests draw numbers for, and the numbers of the model: all
\* of them for the small widths, the ends of the three ranges for the others;
\* -1 and the successor of the largest number are not encodable.
LENGTHS == {3, 4, 5}

Edges(length) ==
    {0, Pow(10, length) - 1, Pow(10, length),
     Pow(10, length) + 26 * Pow(36, length - 1) - 1,
     Pow(10, length) + 26 * Pow(36, length - 1),
     max_hybrid36_number(length)}

Numbers(length) ==
    {-1, max_hybrid36_number(length) + 1} \cup
    (IF length <= MaxWidth THEN 0..max_hybrid36_number(length)
     ELSE Edges(length))

NoCodec == [pc |-> "idle", number |-> 0, length |-> 0, string |-> <<>>,
            result |-> 0]

(***************************************************************************)
(* Actions.                                                                *)
(***************************************************************************)
Init ==
    /\ seqs = [x \in Slots |-> NoSeq]
    /\ alias = {}
    /\ last = Event("start", "ok", <<>>)
    /\ codec = NoCodec

\* x = Kind(value): __init__ assigns self.symbols
Construct(x, kind, value) ==
    IF CanEncodeMultiple(get_alphabet(kind), value)
    THEN Assign(x, kind, symbols_setter(kind, value), "init")
    ELSE Raise("init", "AlphabetError")

\* x.symbols = value
SetSymbols(x, value) ==
    /\ x \in Live
    /\ IF CanEncodeMultiple(get_alphabet(seqs[x].kind), value)
       THEN Assign(x, seqs[x].kind, symbols_setter(seqs[x].kind, value),
                   "set_symbols")
       ELSE Raise("set_symbols", "AlphabetError")

\* x.code = np.array(values)
SetCode(x, values) ==
    /\ x \in Live
    /\ Assign(x, seqs[x].kind, code_setter(seqs[x].kind, RawArr(values)),
              "set_code")

\* dst = x.copy()
Copy(dst, x) ==
    /\ x \in Live
    /\ Assign(dst, seqs[x].kind, copy(seqs[x].kind, SeqCode(x)), "copy")

\* dst = x.copy(np.array(values))
CopyWith(dst, x, values) ==
    /\ x \in Live
    /\ Assign(dst, seqs[x].kind, copy_with(seqs[x].kind, RawArr(values)),
              "copy_with")

\* dst = x.reverse()
Reverse(dst, x) ==
    /\ x \in Live
    /\ Assign(dst, seqs[x].kind, reverse(seqs[x].kind, SeqCode(x)), "reverse")

\* dst = x[index], index a slice, a list or a mask
GetItem(dst, x, index) ==
    /\ x \in Live
    /\ index \in Indexes(Len(seqs[x].code))
    /\ Assign(dst, seqs[x].kind, getitem(seqs[x].kind, SeqCode(x), index),
              "getitem")

\* x[i], i an integer: the decoded symbol
GetSymbol(x, i) ==
    /\ x \in Live
    /\ i \in IntIndexes(Len(seqs[x].code))
    /\ LET code == seqs[x].code[Place(i, Len(seqs[x].code))]
           alph == get_alphabet(seqs[x].kind)
       IN IF CanDecode(alph, code)
          THEN Return("getitem_int", decode(alph, code))
          ELSE Raise("getitem_int", "AlphabetError")

\* x[i] = symbol, i an integer
SetItemInt(x, i, symbol) ==
    /\ x \in Live
    /\ i \in IntIndexes(Len(seqs[x].code))
    /\ LET alph == get_alphabet(seqs[x].kind)
       IN IF Contains(alph, symbol)
          THEN Write(x, <<Place(i, Len(seqs[x].code))>>,
                     <<encode(alph, symbol)>>, "setitem_int")
          ELSE Raise("setitem_int", "AlphabetError")

\* x[index] = y, y a Sequence: item.code is written
SetItemSeq(x, index, y) ==
    /\ x \in Live /\ y \in Live
    /\ index \in Indexes(Len(seqs[x].code))
    /\ IF Broadcasts(Selected(index), seqs[y].code)
       THEN Write(x, Selected(index), seqs[y].code, "setitem_seq")
       ELSE Raise("setitem_seq", "ValueError")

\* x[index] = np.array(values)
SetItemArr(x, index, values) ==
    /\ x \in Live
    /\ index \in SliceIndexes(Len(seqs[x].code))
    /\ IF Broadcasts(Selected(index), values)
       THEN Write(x, Selected(index), values, "setitem_arr")
       ELSE Raise("setitem_arr", "ValueError")

\* x[index] = value, value a str or a list of symbols
SetItemSyms(x, index, value) ==
    /\ x \in Live
    /\ index \in MaskIndexes(Len(seqs[x].code))
    /\ LET alph == get_alphabet(seqs[x].kind)
       IN IF ~CanEncodeMultiple(alph, value)
          THEN Raise("setitem_syms", "AlphabetError")
          ELSE IF Broadcasts(Selected(index), value)
          THEN Write(x, Selected(index), encode_multiple(alph, value),
                     "setitem_syms")
          ELSE Raise("setitem_syms", "ValueError")

\* x[lo:hi] = value, value a str or a list of symbols
SetItemSlice(x, index, value) ==
    /\ x \in Live
    /\ index \in SliceIndexes(Len(seqs[x].code))
    /\ LET alph == get_alphabet(seqs[x].kind)
       IN IF ~CanEncodeMultiple(alph, value)
          THEN Raise("setitem_slice", "AlphabetError")
          ELSE IF Broadcasts(Selected(index), value)
          THEN Write(x, Selected(index), encode_multiple(alph, value),
                     "setitem_slice")
          ELSE Raise("setitem_slice", "ValueError")

\* dst = a + b
Add(dst, a, b) ==
    /\ a \in Live /\ b \in Live
    /\ Len(seqs[a].code) + Len(seqs[b].code) <= MaxLen
    /\ IF add_owner(seqs[a], seqs[b]) = "error"
       THEN Raise("add", "ValueError")
       ELSE Assign(dst, add_kind(seqs[a], seqs[b]),
                   add_code(seqs[a], SeqCode(a), seqs[b], SeqCode(b)), "add")

\* a == b
Compare(a, b) ==
    /\ a \in Live /\ b \in Live
    /\ Return("eq", eq_operator(seqs[a], seqs[b]))

\* x == value, value a list of symbols
CompareRaw(x, value) ==
    /\ x \in Live
    /\ Return("eq_raw", eq_operator(seqs[x], RawItem(value)))

\* x.is_valid()
IsValid(x) ==
    /\ x \in Live
    /\ Return("is_valid", is_valid(seqs[x]))

\* x.get_symbol_frequency()
GetSymbolFrequency(x) ==
    /\ x \in Live
    /\ Return("get_symbol_frequency",
              [self |-> seqs[x], freq |-> get_symbol_frequency(seqs[x])])

\* x.symbols
GetSymbols(x) ==
    /\ x \in Live
    /\ IF CanDecodeMultiple(get_alphabet(seqs[x].kind), seqs[x].code)
       THEN Return("symbols", symbols(seqs[x]))
       ELSE Raise("symbols", "AlphabetError")

\* dst = type(x)(x.symbols)
Rebuild(dst, x) ==
    /\ x \in Live
    /\ IF CanDecodeMultiple(get_alphabet(seqs[x].kind), seqs[x].code)
       THEN Assign(dst, seqs[x].kind,
                   symbols_setter(seqs[x].kind, symbols(seqs[x])), "rebuild")
       ELSE Raise("rebuild", "AlphabetError")

(***************************************************************************)
(* The steps of a program, one per operation.                              *)
(***************************************************************************)
DoConstructOf(K) ==
    \E x \in Slots, kind \in K, value \in SymbolLists :
        Construct(x, kind, value)
DoConstruct == DoConstructOf(Kinds)
DoSetSymbols == \E x \in Slots, value \in SymbolLists : SetSymbols(x, value)
DoSetCode == \E x \in Slots, values \in ValueLists : SetCode(x, values)
DoCopy == \E dst \in Slots, x \in Slots : Copy(dst, x)
DoCopyWith ==
    \E dst \in Slots, x \in Slots, values \in ItemValues :
        CopyWith(dst, x, values)
DoReverse == \E dst \in Slots, x \in Slots : Reverse(dst, x)
DoGetItem ==
    \E dst \in Slots, x \in Slots, index \in Indexes(MaxLen) :
        GetItem(dst, x, index)
DoGetSymbol == \E x \in Slots, i \in IntIndexes(MaxLen) : GetSymbol(x, i)
DoSetItemInt ==
    \E x \in Slots, i \in IntIndexes(MaxLen), symbol \in InSymbols :
        SetItemInt(x, i, symbol)
DoSetItemSeq ==
    \E x \in Slots, index \in Indexes(MaxLen), y \in Slots :
        SetItemSeq(x, index, y)
DoSetItemArr ==
    \E x \in Slots, index \in SliceIndexes(MaxLen), values \in ItemValues :
        SetItemArr(x, index, values)
DoSetItemSyms ==
    \E x \in Slots, index \in MaskIndexes(MaxLen), value \in ItemSymbols :
        SetItemSyms(x, index, value)
DoAdd == \E dst \in Slots, a \in Slots, b \in Slots : Add(dst, a, b)
DoCompare == \E a \in Slots, b \in Slots : Compare(a, b)
DoCompareRaw == \E x \in Slots, value \in SymbolLists : CompareRaw(x, value)
DoIsValid == \E x \in Slots : IsValid(x)
DoGetSymbolFrequency == \E x \in Slots : GetSymbolFrequency(x)
DoGetSymbols == \E x \in Slots : GetSymbols(x)
DoRebuild == \E dst \in Slots, x \in Slots : Rebuild(dst, x)

\* The steps of a program that handles symbols of all alphabets.
DoConstructSymbols ==
    \E x \in Slots, kind \in Kinds, value \in SymbolInputLists :
        Construct(x, kind, value)
DoAssignSymbols ==
    \E x \in Slots, value \in SymbolInputLists : SetSymbols(x, value)
DoSetItemSymbol ==
    \E x \in Slots, i \in IntIndexes(MaxLen), symbol \in SymbolInputs :
        SetItemInt(x, i, symbol)
DoSetItemSlice ==
    \E x \in Slots, index \in SliceIndexes(MaxLen),
       value \in SymbolInputLists :
        SetItemSlice(x, index, value)

\* Programs that build sequences and concatenate them.
NextAdd == DoConstruct \/ DoSetCode \/ DoAdd
SpecAdd == Init /\ [][NextAdd]_vars

\* Programs that build sequences and compare them.
NextEq == DoConstruct \/ DoSetCode \/ DoCompare \/ DoCompareRaw
SpecEq == Init /\ [][NextEq]_vars

\* Programs that take subsequences and assign single symbols.
NextSlice == DoConstruct \/ DoGetItem \/ DoSetItemInt
SpecSlice == Init /\ [][NextSlice]_vars

\* Programs that work on one sequence at a time.
NextUnary ==
    \/ DoConstruct \/ DoSetCode \/ DoReverse \/ DoRebuild
    \/ DoIsValid \/ DoGetSymbolFrequency
SpecUnary == Init /\ [][NextUnary]_vars

\* Programs that take subsequences and assign to positions.
NextSetItem ==
    DoConstruct \/ DoSetCode \/ DoGetItem \/ DoSetItemInt \/ DoSetItemSeq
SpecSetItem == Init /\ [][NextSetItem]_vars

\* Programs of the operations that replace or change a code array, on
\* sequences with one-byte and with two-byte codes.
NextWidth ==
    \/ DoConstructOf({"Nuc", "Big"}) \/ DoSetSymbols \/ DoSetCode \/ DoCopy
    \/ DoCopyWith \/ DoReverse \/ DoGetItem \/ DoAdd \/ DoSetItemInt
    \/ DoSetItemSeq \/ DoSetItemArr \/ DoSetItemSyms
SpecWidth == Init /\ [][NextWidth]_vars

\* Programs of the operations that take and give symbols or whole sequences,
\* never a raw code array.
NextSymbols ==
    \/ DoConstructSymbols \/ DoAssignSymbols \/ DoSetItemSymbol
    \/ DoSetItemSlice \/ DoGetItem \/ DoReverse \/ DoCopy \/ DoAdd
    \/ DoIsValid \/ DoGetSymbols \/ DoGetSymbol
SpecSymbols == Init /\ [][NextSymbols]_vars

\* A hybrid-36 round trip: string = encode_hybrid36(number, length), then
\* result = decode_hybrid36(string).
InitHybrid36 ==
    /\ seqs = [x \in Slots |-> NoSeq]
    /\ alias = {}
    /\ last = Event("start", "ok", <<>>)
    /\ \E length \in (1..MaxWidth) \cup LENGTHS :
          \E number \in Numbers(length) :
              codec = [pc |-> "start", number |-> number, length |-> length,
                       string |-> <<>>, result |-> 0]

EncodeHybrid36 ==
    /\ codec.pc = "start"
    /\ codec' =
          IF CanEncodeHybrid36(codec.number, codec.length)
          THEN [codec EXCEPT !.pc = "encoded",
                             !.string = encode_hybrid36(codec.number,
                                                        codec.length)]
          ELSE [codec EXCEPT !.pc = "ValueError"]
    /\ UNCHANGED <<seqs, alias, last>>

DecodeHybrid36 ==
    /\ codec.pc = "encoded"
    /\ codec' = [codec EXCEPT !.pc = "decoded",
                              !.result = decode_hybrid36(codec.string)]
    /\ UNCHANGED <<seqs, alias, last>>

NextHybrid36 == EncodeHybrid36 \/ DecodeHybrid36
SpecHybrid36 == InitHybrid36 /\ [][NextHybrid36]_vars

\* Programs of all operations.
Next ==
    \/ DoConstruct \/ DoSetSymbols \/ DoSetCode \/ DoCopy \/ DoCopyWith
    \/ DoReverse \/ DoGetItem \/ DoGetSymbol \/ DoSetItemInt \/ DoSetItemSeq
    \/ DoSetItemArr \/ DoSetItemSyms \/ DoAdd \/ DoCompare \/ DoCompareRaw
    \/ DoIsValid \/ DoGetSymbolFrequency \/ DoGetSymbols \/ DoRebuild
    \/ DoConstructSymbols \/ DoAssignSymbols \/ DoSetItemSymbol
    \/ DoSetItemSlice

Spec == Init /\ [][Next]_vars

(***************************************************************************)
(* Properties.                                                             *)
(***************************************************************************)
Alph(obj) == get_alphabet(obj.kind)

Compatible(a, b) == extends(Alph(a), Alph(b)) \/ extends(Alph(b), Alph(a))

Others(x) == Slots \ {x}

\* C1: a + b succeeds exactly when one alphabet extends the other; the result
\* then holds a's codes followed by b's codes and has the kind and alphabet of
\* the operand whose alphabet extends the other's; otherwise it fails with
\* ValueError and produces nothing.  No sequence other than the variable the
\* result is bound to changes.
AddPost(dst, a, b) ==
    LET A == seqs[a]
        B == seqs[b]
        R == seqs'[dst]
    IN IF Compatible(A, B)
       THEN /\ last'.out = "ok"
            /\ R.code = A.code \o B.code
            /\ Len(R.code) = Len(A.code) + Len(B.code)
            /\ R.kind \in {A.kind, B.kind}
            /\ extends(Alph(R), Alph(A)) /\ extends(Alph(R), Alph(B))
            /\ ~extends(Alph(B), Alph(A)) => R.kind = A.kind
            /\ ~extends(Alph(A), Alph(B)) => R.kind = B.kind
            /\ \A z \in Others(dst) : seqs'[z] = seqs[z]
       ELSE /\ last'.out = "ValueError"
            /\ seqs' = seqs

C1_AddContract ==
    [][last'.op = "add" =>
           \A dst \in Slots, a \in Slots, b \in Slots :
               Add(dst, a, b) => AddPost(dst, a, b)]_vars

\* A Nuc sequence was added to a Big one and the result is a Big sequence.
C1_Witness ==
    /\ last.op = "add" /\ last.out = "ok"
    /\ \E dst \in Slots, a \in Slots :
          /\ seqs[a].kind = "Nuc" /\ Len(seqs[a].code) = 1
          /\ seqs[dst].kind = "Big" /\ seqs[dst].dtype = "uint16"
          /\ Len(seqs[dst].code) = 2
          /\ seqs[dst].code[1] = seqs[a].code[1]

\* C2: x == y is true exactly when both are sequences of the same kind with
\* equal alphabets and element-wise equal codes; a sequence never equals a
\* str or list of symbols, on either side; x == y and y == x agree.
SameSequence(x, y) ==
    /\ x.kind = y.kind
    /\ Alph(x) = Alph(y)
    /\ Len(x.code) = Len(y.code)
    /\ \A i \in 1..Len(x.code) : x.code[i] = y.code[i]

C2_EqContract ==
    /\ \A a \in Live, b \in Live :
          /\ eq_operator(seqs[a], seqs[b]) <=> SameSequence(seqs[a], seqs[b])
          /\ eq_operator(seqs[a], seqs[b]) <=> eq_operator(seqs[b], seqs[a])
    /\ \A x \in Live, value \in SymbolLists :
          /\ ~eq_operator(seqs[x], RawItem(value))
          /\ ~eq_operator(RawItem(value), seqs[x])
    /\ last.op = "eq" =>
          \E a \in Live, b \in Live :
              last.ret = SameSequence(seqs[a], seqs[b])

\* A Nuc and a NucSub sequence with the same codes were compared: not equal.
C2_Witness ==
    /\ last.op = "eq" /\ last.ret = FALSE
    /\ seqs["s"].kind = "Nuc" /\ seqs["t"].kind = "NucSub"
    /\ Len(seqs["s"].code) = 2
    /\ seqs["s"].code = seqs["t"].code

\* C3: t = s[index] with a slice, list or mask gives a sequence of the kind of
\* s that holds the selected codes in memory of its own: an indexed assignment
\* to one variable's sequence changes the codes of no other sequence.
GetItemPost(dst, x, index) ==
    LET sel == Selected(index)
    IN /\ seqs'[dst].kind = seqs[x].kind
       /\ seqs'[dst].code = [k \in 1..Len(sel) |-> seqs[x].code[sel[k]]]

C3_SliceIsCopy ==
    [][/\ last'.op = "getitem" =>
              \A dst \in Slots, x \in Slots, index \in Indexes(MaxLen) :
                  GetItem(dst, x, index) => GetItemPost(dst, x, index)
       /\ last'.op = "setitem_int" =>
              \A x \in Slots, i \in IntIndexes(MaxLen), symbol \in InSymbols :
                  SetItemInt(x, i, symbol) =>
                      \A z \in Others(x) : seqs'[z].code = seqs[z].code]_vars

\* C4: dst = x.reverse() is a sequence of the kind of x whose code at place i
\* is x's code at place len - 1 - i, x is not changed, and reversing the
\* result gives a sequence equal to x.
ReverseOf(obj) == Obj(obj.kind, reverse(obj.kind, TempCode(obj)))

ReversePost(dst, x) ==
    LET X == seqs[x]
        R == seqs'[dst]
        n == Len(X.code)
    IN /\ R.kind = X.kind
       /\ Len(R.code) = n
       /\ \A i \in 0..(n - 1) : R.code[i + 1] = X.code[(n - 1 - i) + 1]
       /\ eq_operator(ReverseOf(R), X)
       /\ \A z \in Others(dst) : seqs'[z] = seqs[z]

C4_ReverseContract ==
    [][last'.op = "reverse" =>
           \A dst \in Slots, x \in Slots :
               Reverse(dst, x) => ReversePost(dst, x)]_vars

\* t holds the reverse of s, and the two codes of s differ.
C4_Witness ==
    /\ last.op = "reverse"
    /\ seqs["s"].kind = seqs["t"].kind
    /\ Len(seqs["s"].code) = 2 /\ Len(seqs["t"].code) = 2
    /\ seqs["s"].code[1] # seqs["s"].code[2]
    /\ seqs["t"].code = <<seqs["s"].code[2], seqs["s"].code[1]>>

\* The keys of a dict given by its items, and the sum of its values (zero
\* entries add nothing).
Keys(items) == {items[k][1] : k \in 1..Len(items)}

RECURSIVE SumAt(_, _)
SumAt(items, K) ==
    IF K = {} THEN 0
    ELSE LET k == CHOOSE k \in K : TRUE
         IN items[k][2] + SumAt(items, K \ {k})

Total(items) == SumAt(items, {k \in 1..Len(items) : items[k][2] # 0})

\* One entry per symbol of the alphabet, no symbol twice.
OnePerSymbol(items, alph) ==
    /\ Keys(items) = Range(alph)
    /\ Len(items) = Cardinality(Range(alph))

ValidPlaces(obj) ==
    {i \in 1..Len(obj.code) : 0 <= obj.code[i] /\ obj.code[i] < Len(Alph(obj))}

\* C5 as stated: for every sequence, get_symbol_frequency() has one entry per
\* alphabet symbol and its values sum to the length of the sequence.
C5_FrequencySumsToLen ==
    last.op = "get_symbol_frequency" =>
        /\ OnePerSymbol(last.ret.freq, Alph(last.ret.self))
        /\ Total(last.ret.freq) = Len(last.ret.self.code)

\* C5 amended: one entry per alphabet symbol, the values sum to the number of
\* places that hold a valid code, which is the length when is_valid() is true.
C5_FrequencySumsToValid ==
    last.op = "get_symbol_frequency" =>
        LET f == last.ret.freq
            self == last.ret.self
        IN /\ OnePerSymbol(f, Alph(self))
           /\ Total(f) = Cardinality(ValidPlaces(self))
           /\ is_valid(self) => Total(f) = Len(self.code)
           /\ \A k \in 1..Len(f) :
                 f[k][2] = Cardinality({i \in 1..Len(self.code) :
                              CanDecode(Alph(self), self.code[i])
                              /\ decode(Alph(self), self.code[i]) = f[k][1]})

\* The frequencies of a valid Nuc sequence with the symbols A and C were
\* computed: one A, one C, no G.
C5_Witness ==
    /\ last.op = "get_symbol_frequency"
    /\ last.ret.self.kind = "Nuc" /\ is_valid(last.ret.self)
    /\ Len(last.ret.self.code) = 2
    /\ last.ret.freq[1] = <<"A", 1>>
    /\ last.ret.freq[2] = <<"C", 1>>
    /\ last.ret.freq[3] = <<"G", 0>>

\* C6: for a sequence x with valid codes, a sequence of the same kind built
\* from x.symbols equals x.
RebuildPost(dst, x) ==
    is_valid(seqs[x]) =>
        /\ last'.out = "ok"
        /\ seqs'[dst].kind = seqs[x].kind
        /\ eq_operator(seqs'[dst], seqs[x])
        /\ eq_operator(seqs[x], seqs'[dst])

C6_RoundTrip ==
    [][last'.op = "rebuild" =>
           \A dst \in Slots, x \in Slots :
               Rebuild(dst, x) => RebuildPost(dst, x)]_vars

\* t was built from the symbols of the Bin sequence s, whose two codes differ.
C6_Witness ==
    /\ last.op = "rebuild" /\ last.out = "ok"
    /\ seqs["s"].kind = "Bin" /\ seqs["t"].kind = "Bin"
    /\ Len(seqs["s"].code) = 2
    /\ seqs["s"].code[1] # seqs["s"].code[2]
    /\ seqs["t"].code = seqs["s"].code

\* C8 as stated: after x.code = values, is_valid() is true exactly when every
\* value handed in lies in [0, size of the alphabet).
InRange(values, obj) ==
    \A i \in 1..Len(values) : 0 <= values[i] /\ values[i] < Len(Alph(obj))

C8_CodeAssignmentKeepsInvalid ==
    [][last'.op = "set_code" =>
           \A x \in Slots, values \in ValueLists :
               SetCode(x, values) =>
                   (is_valid(seqs'[x]) <=> InRange(values, seqs[x]))]_vars

\* C9: after every operation the element type of every sequence is the
\* smallest of 8, 16, 32, 64 bits that covers alphabet size - 1 (8 bits up to
\* 256 symbols, 16 up to 65536, 32 up to 2^32, else 64), and an indexed
\* assignment changes the element type of no sequence.
Fits(bits, n) ==
    CASE bits = 8 -> n <= 256
      [] bits = 16 -> n <= 65536
      [] OTHER -> TRUE  \* n is less than 2^31

MinBits(n) == Min({bits \in {8, 16, 32, 64} : Fits(bits, n)})

WidthOk(obj) ==
    /\ obj.dtype \in {"uint8", "uint16", "uint32", "uint64"}
    /\ Bits(obj.dtype) = MinBits(Len(Alph(obj)))

DtypeBoundaries ==
    /\ _dtype(<<0, 0>>) = "uint8" /\ _dtype(<<0, 256>>) = "uint8"
    /\ _dtype(<<0, 257>>) = "uint16" /\ _dtype(<<1, 0>>) = "uint16"
    /\ _dtype(<<1, 1>>) = "uint32" /\ _dtype(<<65536, 0>>) = "uint32"
    /\ _dtype(<<65536, 1>>) = "uint64"

InPlaceOps == {"setitem_int", "setitem_seq", "setitem_arr", "setitem_syms"}

C9_MinimalWidth ==
    [][/\ DtypeBoundaries
       /\ \A x \in Slots : seqs'[x] # NoSeq => WidthOk(seqs'[x])
       /\ last'.op \in InPlaceOps =>
              \A x \in Slots : seqs'[x].dtype = seqs[x].dtype]_vars

\* The codes of the two-byte sequence t, one of them 256, were assigned to
\* places of the one-byte sequence s.
C9_Witness ==
    /\ last.op = "setitem_seq" /\ last.out = "ok"
    /\ seqs["s"].kind = "Nuc" /\ seqs["s"].dtype = "uint8"
    /\ seqs["t"].kind = "Big" /\ seqs["t"].dtype = "uint16"
    /\ Len(seqs["s"].code) = 2
    /\ seqs["t"].code = <<256, 1>>
    /\ seqs["s"].code = <<0, 1>>

\* C10: x[i] = symbol with an integer i in range changes only the code at
\* place i, to the code of the symbol, and nothing else of x; with a symbol
\* that is not in the alphabet it fails and changes nothing.  x[index] = y with
\* a slice, list or mask and a Sequence y writes y's codes to the selected
\* places as they are (one code is written to all of them).
SetItemIntPost(x, i, symbol) ==
    LET alph == Alph(seqs[x])
        n == Len(seqs[x].code)
    IN IF Contains(alph, symbol)
       THEN /\ last'.out = "ok"
            /\ seqs'[x].kind = seqs[x].kind
            /\ Len(seqs'[x].code) = n
            /\ seqs'[x].code[Place(i, n)] = encode(alph, symbol)
            /\ \A p \in 1..n :
                  p # Place(i, n) => seqs'[x].code[p] = seqs[x].code[p]
       ELSE /\ last'.out = "AlphabetError"
            /\ seqs' = seqs

SetItemSeqPost(x, index, y) ==
    LET sel == Selected(index)
        item == seqs[y].code
    IN Broadcasts(sel, item) =>
           /\ last'.out = "ok"
           /\ \A k \in 1..Len(sel) :
                 (\A j \in (k + 1)..Len(sel) : sel[j] # sel[k]) =>
                     seqs'[x].code[sel[k]] =
                         IF Len(item) = 1 THEN item[1] ELSE item[k]
           /\ \A p \in 1..Len(seqs[x].code) :
                 p \notin Range(sel) => seqs'[x].code[p] = seqs[x].code[p]

C10_SetItemContract ==
    [][/\ last'.op = "setitem_int" =>
              \A x \in Slots, i \in IntIndexes(MaxLen), symbol \in InSymbols :
                  SetItemInt(x, i, symbol) => SetItemIntPost(x, i, symbol)
       /\ last'.op = "setitem_seq" =>
              \A x \in Slots, index \in Indexes(MaxLen), y \in Slots :
                  SetItemSeq(x, index, y) => SetItemSeqPost(x, index, y)]_vars

SymbolOps ==
    {"start", "init", "set_symbols", "setitem_int", "setitem_slice",
     "getitem", "reverse", "copy", "add", "is_valid", "symbols",
     "getitem_int"}

C11_ValidityPreserved ==
    /\ last.op \in SymbolOps
    /\ \A x \in Live :
          /\ is_valid(seqs[x])
          /\ \A i \in 1..Len(seqs[x].code) : seqs[x].code[i] >= 0
          /\ CanDecodeMultiple(Alph(seqs[x]), seqs[x].code)
    /\ last.op = "is_valid" => last.ret = TRUE
    /\ last.op \in {"symbols", "getitem_int"} => last.out = "ok"

\* "T" of the small alphabet and "x4" of the big one were concatenated: the
\* result is of the big kind, where code 4 is a symbol.
C11_Witness ==
    /\ last.op = "add" /\ last.out = "ok"
    /\ \E x \in Slots :
          /\ seqs[x].kind = "Big"
          /\ seqs[x].code = <<3, 4>>
          /\ \E y \in Others(x) : seqs[y].kind = "Nuc" /\ seqs[y].code = <<3>>

=============================================================================
